---------------------------- MODULE Spec2Model ----------------------------
(***************************************************************************)
(* A model of index.js, the theater lottery: main() loads and validates    *)
(* theaters.tsv and orders.tsv, runs the round-based initial lottery       *)
(* (runInitialLottery), optionally the vacancy lottery (runVacancyLottery) *)
(* and writes individual.tsv and class.tsv (writeResults).                 *)
(*                                                                         *)
(* An id is a string, modelled as the sequence of its character codes; the *)
(* empty sequence is the empty string, which main() turns into null        *)
(* (`cols[i + 1] || null`), so it also stands for a missing preference.    *)
(* A 32-bit word of the xorshift generator is a pair <<high, low>> of      *)
(* 16-bit halves, so that no intermediate value leaves TLC's integers.     *)
(***************************************************************************)
EXTENDS Integers, Sequences, FiniteSets, TLC

VARIABLES
  settings,      \* settings.json: [maxOrders, enableVacancy, seed]
  theatersData,  \* theaters.tsv: rows [id, timeSlot, play, capacity]
  ordersData,    \* orders.tsv: rows [id, prefs]
  vacancyFile,   \* vacancy_candidates.txt: [exists, ids]
  now,           \* Date.now() of this run, truncated to 32 bits
  pc,            \* where main() stands
  random,        \* the generator made by createSeededRandom
  persons,       \* persons[i] = [id, prefs]
  theaters,      \* theaters[t] = [id, timeSlot, play, capacity]
  wins,          \* wins[i] = persons[i].assigned, a set of theater ids
  holders,       \* holders[t] = theaters[t].assigned, a set of person ids
  rank,          \* the round of runInitialLottery (0-based)
  groups,        \* the Map of groupByAssignedCount: count -> person indices
  counts,        \* its keys, sorted ascending
  tIdx,          \* position of the `for (const theater of theaters)` loop
  cIdx,          \* position of the `for (const count of counts)` loop
  seats,         \* the local `seats` of the theater being processed
  candidates,    \* runVacancyLottery's `candidates`: person indices
  output,        \* [individual, class]: the rows written, <<>> before
  lastStep,      \* history: the last selection step that registered winners
  steps,         \* history: every selection step so far, in order
  afterInitial,  \* history: wins/holders when runInitialLottery returned
  draws,         \* history: number of random() calls so far
  runNo,         \* which run of the program this is (1 or 2)
  firstRun       \* history: wins/holders the first run ended with

vars == <<settings, theatersData, ordersData, vacancyFile, now, pc, random,
          persons, theaters, wins, holders, rank, groups, counts, tIdx, cIdx,
          seats, candidates, output, lastStep, steps, afterInitial, draws, runNo,
          firstRun>>

inputs == <<settings, theatersData, ordersData, vacancyFile>>

-----------------------------------------------------------------------------
(* Bounds of the model. *)

\* capacities range over 0..MaxCapacity
MaxCapacity == 2
\* settings.maxOrders ranges over 1..MaxRanks
MaxRanks == 2

-----------------------------------------------------------------------------
(* Strings. *)

Null == <<>>

a1 == <<1, 1>>
a2 == <<1, 2>>
b1 == <<2, 1>>
b2 == <<2, 2>>
s1 == <<3, 1>>
s2 == <<3, 2>>
t1 == <<4, 1>>

\* a[0] of a non-empty string; 0 stands for undefined
FirstChar(s) == IF Len(s) = 0 THEN 0 ELSE s[1]

\* s < t in code unit order, the order of Array.prototype.sort()
RECURSIVE StrLess(_, _)
StrLess(s, t) ==
  IF Len(t) = 0 THEN FALSE
  ELSE IF Len(s) = 0 THEN TRUE
  ELSE IF s[1] # t[1] THEN s[1] < t[1]
  ELSE StrLess(Tail(s), Tail(t))

\* [...set].sort(): the ids of a set, ascending
RECURSIVE SortedIds(_)
SortedIds(S) ==
  IF S = {} THEN <<>>
  ELSE LET m == CHOOSE x \in S : \A y \in S \ {x} : StrLess(x, y)
       IN  <<m>> \o SortedIds(S \ {m})

\* Insert row r into the sorted sequence rows, after every row whose first
\* character is not greater: one step of a stable sort by
\* (a, b) => a[0].localeCompare(b[0])
RECURSIVE InsertByFirstChar(_, _)
InsertByFirstChar(rows, r) ==
  IF rows = <<>> THEN <<r>>
  ELSE LET last == rows[Len(rows)]
       IN  IF FirstChar(last.id) <= FirstChar(r.id)
           THEN Append(rows, r)
           ELSE Append(InsertByFirstChar(SubSeq(rows, 1, Len(rows) - 1), r), last)

RECURSIVE SortByFirstChar(_)
SortByFirstChar(rows) ==
  IF rows = <<>> THEN <<>>
  ELSE InsertByFirstChar(SortByFirstChar(SubSeq(rows, 1, Len(rows) - 1)),
                         rows[Len(rows)])

Range(s) == {s[i] : i \in DOMAIN s}


-----------------------------------------------------------------------------
(* 32-bit words and createSeededRandom (xorshift). *)

Half == 65536

RECURSIVE Pow2(_)
Pow2(k) == IF k = 0 THEN 1 ELSE 2 * Pow2(k - 1)

\* bitwise exclusive or of two numbers below 2^bits
RECURSIVE XorBits(_, _, _)
XorBits(a, b, bits) ==
  IF bits = 0 THEN 0
  ELSE ((a + b) % 2) + 2 * XorBits(a \div 2, b \div 2, bits - 1)

\* a ^ b
XorW(a, b) == <<XorBits(a[1], b[1], 16), XorBits(a[2], b[2], 16)>>

\* a << k, for 0 < k < 16
ShlW(a, k) ==
  <<((a[1] * Pow2(k)) % Half) + (a[2] \div Pow2(16 - k)),
    (a[2] * Pow2(k)) % Half>>

\* a >> k, the sign-propagating shift, for 0 < k < 32
SarW(a, k) ==
  LET neg == a[1] >= Half \div 2
  IN  IF k < 16
      THEN <<(a[1] \div Pow2(k)) + (IF neg THEN Half - Pow2(16 - k) ELSE 0),
             (a[2] \div Pow2(k)) + (a[1] % Pow2(k)) * Pow2(16 - k)>>
      ELSE <<IF neg THEN Half - 1 ELSE 0,
             (a[1] \div Pow2(k - 16))
               + (IF neg THEN Half - Pow2(32 - k) ELSE 0)>>

\* ToInt32 of a non-negative integer below 2^31
Word(n) == <<n \div Half, n % Half>>

\* The closure state right after createSeededRandom(seed). known = FALSE
\* stands for a generator whose seed is not tracked: each call of it may
\* return any value of [0, 1).
createSeededRandom(seed) ==
  [known |-> seed.known,
   x |-> <<1883, 52501>>,    \* 123456789
   y |-> <<5530, 21989>>,    \* 362436069
   z |-> <<7954, 15285>>,    \* 521288629
   w |-> seed.word]

\* One call of the generator: the new closure state
RandomStep(r) ==
  LET t == XorW(r.x, ShlW(r.x, 11))
  IN  [known |-> r.known,
       x |-> r.y, y |-> r.z, z |-> r.w,
       w |-> XorW(XorW(r.w, SarW(r.w, 19)), XorW(t, SarW(t, 8)))]

\* Math.floor(((w >>> 0) / 4294967296) * n) for the word w and 0 < n < 2^15
ScaledFloor(w, n) == (w[1] * n + ((w[2] * n) \div Half)) \div Half

\* The outcomes <<j, generator after>> of Math.floor(random() * n)
RandomIndex(r, n) ==
  IF r.known
  THEN {<<ScaledFloor(RandomStep(r).w, n), RandomStep(r)>>}
  ELSE {<<j, r>> : j \in 0..(n - 1)}

-----------------------------------------------------------------------------
(* createShuffledArray, pickWinners, groupByAssignedCount, hasConflict. *)

SwapAt(arr, i, j) ==
  [k \in DOMAIN arr |-> IF k = i THEN arr[j] ELSE IF k = j THEN arr[i] ELSE arr[k]]

\* The Fisher-Yates loop from index i (0-based) down to 1: the outcomes
\* <<array, generator after>>
RECURSIVE ShuffleFrom(_, _, _)
ShuffleFrom(arr, i, r) ==
  IF i < 1 THEN {<<arr, r>>}
  ELSE UNION {ShuffleFrom(SwapAt(arr, i + 1, d[1] + 1), i - 1, d[2])
                : d \in RandomIndex(r, i + 1)}

createShuffledArray(array, r) == ShuffleFrom(array, Len(array) - 1, r)

\* array.slice(0, n) for n >= 0
SliceTo(array, n) == SubSeq(array, 1, IF n < Len(array) THEN n ELSE Len(array))


\* groupByAssignedCount keeping only the persons without a win
groupByZeroOnly(idxs, w) ==
  [c \in {0} \cap {Cardinality(w[idxs[k]]) : k \in DOMAIN idxs} |->
     SelectSeq(idxs, LAMBDA i : Cardinality(w[i]) = 0)]

\* groupByAssignedCount putting everybody under the count 0
groupByNothing(idxs, w) == [c \in {0} |-> idxs]

\* groupByAssignedCount over the persons listed in idxs, given their
\* assigned sets w: the Map from each count to the persons having it, in
\* the order of idxs
groupByAssignedCount(idxs, w) ==
  [c \in {Cardinality(w[idxs[k]]) : k \in DOMAIN idxs} |->
     SelectSeq(idxs, LAMBDA i : Cardinality(w[i]) = c)]

\* the keys sorted with (a, b) => b - a
RECURSIVE SortedCountsDescending(_)
SortedCountsDescending(S) ==
  IF S = {} THEN <<>>
  ELSE LET m == CHOOSE x \in S : \A y \in S : x >= y
       IN  <<m>> \o SortedCountsDescending(S \ {m})

\* [...groups.keys()].sort((a, b) => a - b)
RECURSIVE SortedCounts(_)
SortedCounts(S) ==
  IF S = {} THEN <<>>
  ELSE LET m == CHOOSE x \in S : \A y \in S : x <= y
       IN  <<m>> \o SortedCounts(S \ {m})

\* pickWinners without the cut to the free seats
pickWinnersUncut(cands, nseats, r) ==
  IF Len(cands) <= nseats
  THEN {<<cands, r>>}
  ELSE createShuffledArray(cands, r)

\* pickWinners cutting one seat short
pickWinnersShort(cands, nseats, r) ==
  IF Len(cands) < nseats
  THEN {<<cands, r>>}
  ELSE {<<SliceTo(sh[1], nseats - 1), sh[2]>> : sh \in createShuffledArray(cands, r)}

\* pickWinners: the outcomes <<winners, generator after>>
pickWinners(cands, nseats, r) ==
  IF Len(cands) <= nseats
  THEN {<<cands, r>>}
  ELSE {<<SliceTo(sh[1], nseats), sh[2]>> : sh \in createShuffledArray(cands, r)}

\* random() calls made by pickWinners
DrawsOf(cands, nseats) ==
  IF Len(cands) <= nseats THEN 0 ELSE Len(cands) - 1

\* theaterMap.get(tid): new Map(...) keeps the last theater of an id
TheaterMapGet(tid) ==
  theaters[CHOOSE k \in DOMAIN theaters :
             /\ theaters[k].id = tid
             /\ \A m \in DOMAIN theaters : m > k => theaters[m].id # tid]

\* hasConflict comparing the play only
hasConflictPlayOnly(held, theater) ==
  \E tid \in held : TheaterMapGet(tid).play = theater.play

\* hasConflict looking only at the other theaters the person holds
hasConflictOthersOnly(held, theater) ==
  \E tid \in held \ {theater.id} :
    \/ TheaterMapGet(tid).timeSlot = theater.timeSlot
    \/ TheaterMapGet(tid).play = theater.play

\* hasConflict(person, theater, theaterMap) for a person holding `held`
hasConflict(held, theater) ==
  \E tid \in held :
    \/ TheaterMapGet(tid).timeSlot = theater.timeSlot
    \/ TheaterMapGet(tid).play = theater.play

\* assignWinners registering the winners with the theater only
assignWinnersTheaterOnly(winners, t) ==
  [holders |-> [holders EXCEPT ![t] = @ \cup {persons[winners[k]].id : k \in DOMAIN winners}],
   wins    |-> wins]

\* The loop of assignWinners over the assigned sets st = [wins, holders]
Registered(st, winners, t) ==
  [holders |-> [st.holders EXCEPT
                  ![t] = @ \cup {persons[winners[k]].id : k \in DOMAIN winners}],
   wins    |-> [i \in DOMAIN st.wins |->
                  IF i \in Range(winners) THEN st.wins[i] \cup {theaters[t].id}
                  ELSE st.wins[i]]]

\* assignWinners(winners, theater): the assigned sets afterwards
assignWinners(winners, t) ==
  Registered([wins |-> wins, holders |-> holders], winners, t)

\* the loop of runInitialLottery without the break of line 216
AllFullNever == FALSE

\* theaters.every((theater) => theater.assigned.size >= theater.capacity)
AllFull ==
  \A t \in DOMAIN theaters : Cardinality(holders[t]) >= theaters[t].capacity


-----------------------------------------------------------------------------
(* Validation and construction in main(). *)

\* `seed || defaultSeed`, as the argument of createSeededRandom. A seed is
\* [given, tracked, value]: absent from settings.json (given = FALSE), or an
\* integer; tracked = FALSE stands for some non-zero integer whose value the
\* model does not follow.
ResolveSeed(seed, defaultSeed) ==
  IF seed.given /\ seed.value # 0
  THEN [known |-> seed.tracked, word |-> Word(seed.value)]
  ELSE [known |-> TRUE, word |-> defaultSeed]

\* new Set(ids).size !== ids.length
DuplicateIds(ids) == Cardinality(Range(ids)) # Len(ids)

\* order[i] for a row whose columns after the id are prefs; a missing column
\* is undefined, which is falsy like the empty string
Col(prefs, i) == IF i \in DOMAIN prefs THEN prefs[i] ELSE Null

\* The check of line 401: theaterId && theaterId === "" && !theaterIdSet.has(theaterId)
UnknownPref(orders, maxOrders, theaterIdSet) ==
  \E o \in DOMAIN orders : \E i \in 1..maxOrders :
    LET theaterId == Col(orders[o].prefs, i)
    IN  theaterId # Null /\ theaterId = Null /\ theaterId \notin theaterIdSet

\* loadAndValidateTheaters that reports nothing
TheatersAccepted(data) == FALSE

\* loadAndValidateTheaters: TRUE when it calls process.exit(1)
TheatersRejected(data) == DuplicateIds([k \in DOMAIN data |-> data[k].id])

\* loadAndValidateOrders: TRUE when it calls process.exit(1)
OrdersRejected(orders, maxOrders, theaterIdSet) ==
  \/ DuplicateIds([k \in DOMAIN orders |-> orders[k].id])
  \/ UnknownPref(orders, maxOrders, theaterIdSet)

\* The person objects of line 448 (assigned is kept in wins)
MakePersons(orders, maxOrders) ==
  [k \in DOMAIN orders |->
     [id |-> orders[k].id,
      prefs |-> [i \in 1..maxOrders |-> Col(orders[k].prefs, i)]]]

NoRandom ==
  [known |-> TRUE, x |-> <<0, 0>>, y |-> <<0, 0>>, z |-> <<0, 0>>, w |-> <<0, 0>>]

NoStep ==
  [engine |-> "none", theater |-> 0, count |-> 0, eligible |-> <<>>,
   seatsBefore |-> 0, winners |-> <<>>]

NoResult == [wins |-> <<>>, holders |-> <<>>, set |-> FALSE]

NoOutput == [individual |-> <<>>, class |-> <<>>, written |-> FALSE]

-----------------------------------------------------------------------------
(* main(): lines 416-445. *)

\* settings.json is read, the generator is created, theaters.tsv is loaded
LoadTheaters ==
  /\ pc = "main"
  /\ random' = createSeededRandom(ResolveSeed(settings.seed, now))
  /\ pc' = IF TheatersRejected(theatersData) THEN "aborted" ELSE "orders"
  /\ UNCHANGED <<inputs, now, persons, theaters, wins, holders, rank, groups,
                 counts, tIdx, cIdx, seats, candidates, output, lastStep, steps,
                 afterInitial, draws, runNo, firstRun>>

\* orders.tsv is loaded; the person and theater objects are made
LoadOrders ==
  /\ pc = "orders"
  /\ IF OrdersRejected(ordersData, settings.maxOrders,
                       {theatersData[k].id : k \in DOMAIN theatersData})
     THEN /\ pc' = "aborted"
          /\ UNCHANGED <<persons, theaters, wins, holders>>
     ELSE /\ pc' = "round"
          /\ persons' = MakePersons(ordersData, settings.maxOrders)
          /\ theaters' = theatersData
          /\ wins' = [k \in DOMAIN ordersData |-> {}]
          /\ holders' = [k \in DOMAIN theatersData |-> {}]
  /\ UNCHANGED <<inputs, now, random, rank, groups, counts, tIdx, cIdx, seats,
                 candidates, output, lastStep, steps, afterInitial, draws, runNo,
                 firstRun>>


-----------------------------------------------------------------------------
(* runInitialLottery: lines 205-251. *)

AllPersons == [k \in 1..Len(persons) |-> k]

\* the filter with `person.prefs.includes(theater.id)` for the rank test
EligibleAtAnyRank(w, r, i, t) ==
  /\ theaters[t].id \in Range(persons[i].prefs) \ {Null}
  /\ theaters[t].id \notin w[i]
  /\ ~hasConflict(w[i], theaters[t])

\* the filter reading the preferences from the last rank to the first
EligibleAtReversed(w, r, i, t) ==
  /\ persons[i].prefs[settings.maxOrders - r] # Null
  /\ persons[i].prefs[settings.maxOrders - r] = theaters[t].id
  /\ theaters[t].id \notin w[i]
  /\ ~hasConflict(w[i], theaters[t])

\* the filter without the test of the preference
EligibleUnlisted(w, r, i, t) ==
  /\ theaters[t].id \notin w[i]
  /\ ~hasConflict(w[i], theaters[t])

\* The filter of lines 234-239 for person i and theater t at the round r
\* (0-based), person i holding w[i]; theater ids are never null
EligibleAt(w, r, i, t) ==
  /\ persons[i].prefs[r + 1] # Null
  /\ persons[i].prefs[r + 1] = theaters[t].id
  /\ theaters[t].id \notin w[i]
  /\ ~hasConflict(w[i], theaters[t])

\* The filter as the loop evaluates it, on the live assigned sets
InitialEligible(i, t) == EligibleAt(wins, rank, i, t)

\* The head of the `for rank` loop: the loop condition, the all-full break,
\* and the grouping of line 220
RoundBegin ==
  /\ pc = "round"
  /\ IF rank >= settings.maxOrders \/ AllFull
     THEN /\ pc' = "vacancy"
          /\ afterInitial' = [wins |-> wins, holders |-> holders, set |-> TRUE]
          /\ UNCHANGED <<groups, counts, tIdx>>
     ELSE /\ pc' = "theater"
          /\ groups' = groupByAssignedCount(AllPersons, wins)
          /\ counts' = SortedCounts(DOMAIN groupByAssignedCount(AllPersons, wins))
          /\ tIdx' = 1
          /\ UNCHANGED afterInitial
  /\ UNCHANGED <<inputs, now, random, persons, theaters, wins, holders, rank,
                 cIdx, seats, candidates, output, lastStep, steps, draws, runNo,
                 firstRun>>

\* The head of the `for theater` loop: lines 224-226
TheaterBegin ==
  /\ pc = "theater"
  /\ IF tIdx > Len(theaters)
     THEN /\ pc' = "round"
          /\ rank' = rank + 1
          /\ groups' = <<>>
          /\ counts' = <<>>
          /\ tIdx' = 0
          /\ UNCHANGED <<seats, cIdx>>
     ELSE IF theaters[tIdx].capacity - Cardinality(holders[tIdx]) <= 0
     THEN /\ tIdx' = tIdx + 1
          /\ UNCHANGED <<pc, rank, groups, counts, seats, cIdx>>
     ELSE /\ pc' = "bucket"
          /\ seats' = theaters[tIdx].capacity - Cardinality(holders[tIdx])
          /\ cIdx' = 1
          /\ UNCHANGED <<rank, groups, counts, tIdx>>
  /\ UNCHANGED <<inputs, now, random, persons, theaters, wins, holders,
                 candidates, output, lastStep, steps, afterInitial, draws, runNo,
                 firstRun>>

\* One selection step: pickWinners over cands for the theater t, then
\* assignWinners and `seats -= winners.length`
Select(engine, cands, t) ==
  \E o \in pickWinners(cands, seats, random) :
    /\ random' = o[2]
    /\ wins' = assignWinners(o[1], t).wins
    /\ holders' = assignWinners(o[1], t).holders
    /\ seats' = seats - Len(o[1])
    /\ draws' = draws + DrawsOf(cands, seats)
    /\ lastStep' = [engine |-> engine, theater |-> t, count |-> counts[cIdx],
                    eligible |-> cands, seatsBefore |-> seats,
                    winners |-> o[1]]
    /\ steps' = Append(steps, [engine |-> engine, rank |-> rank, theater |-> t,
                               count |-> counts[cIdx], eligible |-> cands,
                               seatsBefore |-> seats, winners |-> o[1]])

\* One pass of the `for count` loop: lines 228-248
BucketStep ==
  /\ pc = "bucket"
  /\ IF cIdx > Len(counts) \/ seats <= 0
     THEN /\ pc' = "theater"
          /\ tIdx' = tIdx + 1
          /\ seats' = 0
          /\ cIdx' = 0
          /\ UNCHANGED <<random, wins, holders, draws, lastStep, steps>>
     ELSE LET cands == SelectSeq(groups[counts[cIdx]],
                                 LAMBDA i : InitialEligible(i, tIdx))
          IN  /\ cIdx' = cIdx + 1
              /\ UNCHANGED <<pc, tIdx>>
              /\ IF cands = <<>>
                 THEN UNCHANGED <<random, wins, holders, seats, draws, lastStep, steps>>
                 ELSE Select("initial", cands, tIdx)
  /\ UNCHANGED <<inputs, now, persons, theaters, rank, groups, counts,
                 candidates, output, afterInitial, runNo, firstRun>>

-----------------------------------------------------------------------------
(* One round of runInitialLottery as a function of the assigned sets it     *)
(* starts from and of the order in which the theaters are taken.            *)

\* A generator whose seed is not followed
AnyRandom == [NoRandom EXCEPT !.known = FALSE]

\* The `for count` loop of lines 228-248 from the position c of the keys cs
\* of the Map g, for the theater t in the round r with n seats left: the
\* assigned sets st = [wins, holders] it can end with, over every draw
RECURSIVE BucketsFrom(_, _, _, _, _, _, _)
BucketsFrom(st, g, cs, c, n, t, r) ==
  IF c > Len(cs) \/ n <= 0 THEN {st}
  ELSE LET cands == SelectSeq(g[cs[c]], LAMBDA i : EligibleAt(st.wins, r, i, t))
       IN  IF cands = <<>>
           THEN BucketsFrom(st, g, cs, c + 1, n, t, r)
           ELSE UNION {BucketsFrom(Registered(st, o[1], t), g, cs, c + 1,
                                   n - Len(o[1]), t, r)
                         : o \in pickWinners(cands, n, AnyRandom)}

\* The body of the `for theater` loop, lines 225-248
TheaterPass(st, g, cs, t, r) ==
  LET n == theaters[t].capacity - Cardinality(st.holders[t])
  IN  IF n <= 0 THEN {st} ELSE BucketsFrom(st, g, cs, 1, n, t, r)

\* The `for theater` loop over order[k], order[k + 1], ...
RECURSIVE RoundFrom(_, _, _, _, _, _)
RoundFrom(S, g, cs, order, k, r) ==
  IF k > Len(order) THEN S
  ELSE RoundFrom(UNION {TheaterPass(st, g, cs, order[k], r) : st \in S},
                 g, cs, order, k + 1, r)

\* Lines 220-249: the round r run from the assigned sets st, the theaters
\* taken in the given order
RoundOutcomes(st, order, r) ==
  LET g == groupByAssignedCount(AllPersons, st.wins)
  IN  RoundFrom({st}, g, SortedCounts(DOMAIN g), order, 1, r)

\* `for (const theater of theaters)`: the order of theaters.tsv
FileOrder == [k \in 1..Len(theaters) |-> k]

-----------------------------------------------------------------------------
(* runVacancyLottery: lines 266-302, and its call in line 470. *)

\* readLines(path, true) of vacancy_candidates.txt, as a Set
VacancyIds == IF vacancyFile.exists THEN vacancyFile.ids ELSE {}

\* the filter asking also that the person listed the theater
VacancyEligibleListed(i, t) ==
  /\ theaters[t].id \in Range(persons[i].prefs)
  /\ ~hasConflict(wins[i], theaters[t])

\* The filter of line 291
VacancyEligible(i, t) == ~hasConflict(wins[i], theaters[t])

\* the grouping made once, from the assigned sets the initial lottery left
VacancyGroupsStale == groupByAssignedCount(candidates, afterInitial.wins)

\* Line 281: the grouping made anew for each theater
VacancyGroups == groupByAssignedCount(candidates, wins)

\* candidates without the filter by vacancyIds
VacancyCandidatesAll(vacancyIds) == AllPersons

\* persons.filter((person) => vacancyIds.has(person.id))
VacancyCandidates(vacancyIds) ==
  SelectSeq(AllPersons, LAMBDA i : persons[i].id \in vacancyIds)

\* runVacancyLottery called whatever enableVacancy says
VacancySkippedNoFlag == VacancyIds = {}

\* runVacancyLottery is not called (line 470) or returns at once (line 271)
VacancySkipped == ~settings.enableVacancy \/ VacancyIds = {}

\* Line 470 and lines 268-274
VacancyBegin ==
  /\ pc = "vacancy"
  /\ IF VacancySkipped
     THEN /\ pc' = "write"
          /\ UNCHANGED <<candidates, tIdx>>
     ELSE /\ pc' = "vtheater"
          /\ candidates' = VacancyCandidates(VacancyIds)
          /\ tIdx' = 1
  /\ UNCHANGED <<inputs, now, random, persons, theaters, wins, holders, rank,
                 groups, counts, cIdx, seats, output, lastStep, steps, afterInitial,
                 draws, runNo, firstRun>>

\* The head of the `for theater` loop: lines 276-282
VacancyTheaterBegin ==
  /\ pc = "vtheater"
  /\ IF tIdx > Len(theaters)
     THEN /\ pc' = "write"
          /\ tIdx' = 0
          /\ candidates' = <<>>
          /\ UNCHANGED <<groups, counts, seats, cIdx>>
     ELSE IF theaters[tIdx].capacity - Cardinality(holders[tIdx]) <= 0
     THEN /\ tIdx' = tIdx + 1
          /\ UNCHANGED <<pc, candidates, groups, counts, seats, cIdx>>
     ELSE /\ pc' = "vbucket"
          /\ seats' = theaters[tIdx].capacity - Cardinality(holders[tIdx])
          /\ groups' = VacancyGroups
          /\ counts' = SortedCounts(DOMAIN VacancyGroups)
          /\ cIdx' = 1
          /\ UNCHANGED <<tIdx, candidates>>
  /\ UNCHANGED <<inputs, now, random, persons, theaters, wins, holders, rank,
                 output, lastStep, steps, afterInitial, draws, runNo, firstRun>>

\* One pass of the `for count` loop: lines 285-300
VacancyBucketStep ==
  /\ pc = "vbucket"
  /\ IF cIdx > Len(counts) \/ seats <= 0
     THEN /\ pc' = "vtheater"
          /\ tIdx' = tIdx + 1
          /\ seats' = 0
          /\ cIdx' = 0
          /\ groups' = <<>>
          /\ counts' = <<>>
          /\ UNCHANGED <<random, wins, holders, draws, lastStep, steps>>
     ELSE LET eligible == SelectSeq(groups[counts[cIdx]],
                                    LAMBDA i : VacancyEligible(i, tIdx))
          IN  /\ cIdx' = cIdx + 1
              /\ UNCHANGED <<pc, tIdx, groups, counts>>
              /\ IF eligible = <<>>
                 THEN UNCHANGED <<random, wins, holders, seats, draws, lastStep, steps>>
                 ELSE Select("vacancy", eligible, tIdx)
  /\ UNCHANGED <<inputs, now, persons, theaters, rank, candidates, output,
                 afterInitial, runNo, firstRun>>

-----------------------------------------------------------------------------
(* writeResults: lines 314-346. *)

\* [id, ...[...assigned].sort()] for every object, then the sort of line 322
\* (339): rows are compared by a[0], the first character of the joined line
ResultLines(objs, assigned) ==
  SortByFirstChar([k \in DOMAIN objs |->
                     [id |-> objs[k].id, ids |-> SortedIds(assigned[k])]])

WriteResults ==
  /\ pc = "write"
  /\ output' = [individual |-> ResultLines(persons, wins),
                class |-> ResultLines(theaters, holders),
                written |-> TRUE]
  /\ pc' = "done"
  /\ UNCHANGED <<inputs, now, random, persons, theaters, wins, holders, rank,
                 groups, counts, tIdx, cIdx, seats, candidates, lastStep, steps,
                 afterInitial, draws, runNo, firstRun>>


-----------------------------------------------------------------------------
(* The input files the model is run on. *)

\* A seed present in settings.json whose value is not followed
AnySeed == [given |-> TRUE, tracked |-> FALSE, value |-> 1]
NoSeed == [given |-> FALSE, tracked |-> TRUE, value |-> 0]
SeedOf(n) == [given |-> TRUE, tracked |-> TRUE, value |-> n]

\* Date.now() & 0xffffffff of 1762135200000 and of 1762560000000
Clock == {<<18289, 20736>>, <<24771, 16384>>}

Theater(id, slot, play, cap) ==
  [id |-> id, timeSlot |-> slot, play |-> play, capacity |-> cap]

Order(id, prefs) == [id |-> id, prefs |-> prefs]

Input(st, th, ord, vac) ==
  [settings |-> st, theatersData |-> th, ordersData |-> ord, vacancyFile |-> vac]

\* enableVacancy and vacancy_candidates.txt (a missing file, or the ids)
Configs ==
  {<<TRUE, [exists |-> FALSE, ids |-> {}]>>,
   <<TRUE, [exists |-> TRUE, ids |-> {a1}]>>,
   <<TRUE, [exists |-> TRUE, ids |-> {a1, a2}]>>,
   <<FALSE, [exists |-> TRUE, ids |-> {a1, a2}]>>}

\* The second theater shares the time slot, the play, both or neither with
\* the first
Slots == {"morning", "afternoon"}
Plays == {"playX", "playY"}

\* Preference columns of one applicant over two theaters: any row of
\* MaxRanks columns, some empty, that lists no theater twice, and one
\* shorter row that does
PairRows ==
  {p \in [1..MaxRanks -> {s1, s2, Null}] :
     \A i, j \in 1..MaxRanks : (i < j /\ p[i] # Null) => p[i] # p[j]}
    \cup {<<s1, s1>>}

TrioRows == {<<s1, s2>>, <<s2, s1>>, <<s1>>, <<s2>>}

InitWith(in, clock) ==
  /\ settings = in.settings
  /\ theatersData = in.theatersData
  /\ ordersData = in.ordersData
  /\ vacancyFile = in.vacancyFile
  /\ now = clock
  /\ pc = "main"
  /\ random = NoRandom
  /\ persons = <<>>
  /\ theaters = <<>>
  /\ wins = <<>>
  /\ holders = <<>>
  /\ rank = 0
  /\ groups = <<>>
  /\ counts = <<>>
  /\ tIdx = 0
  /\ cIdx = 0
  /\ seats = 0
  /\ candidates = <<>>
  /\ output = NoOutput
  /\ lastStep = NoStep
  /\ steps = <<>>
  /\ afterInitial = NoResult
  /\ draws = 0
  /\ runNo = 1
  /\ firstRun = NoResult

\* Two theaters and two applicants with unique ids
PairInit ==
  \E cf \in Configs :
    \E c1 \in 0..MaxCapacity, c2 \in 0..MaxCapacity,
       slot \in Slots, play \in Plays, p1 \in PairRows, p2 \in PairRows :
      InitWith(
        Input([maxOrders |-> MaxRanks, enableVacancy |-> cf[1], seed |-> AnySeed],
              <<Theater(s1, "morning", "playX", c1), Theater(s2, slot, play, c2)>>,
              <<Order(a1, p1), Order(a2, p2)>>,
              cf[2]),
        CHOOSE c \in Clock : TRUE)

\* Two theaters of up to MaxCapacity + 1 seats and three applicants
TrioInit ==
  \E cf \in Configs :
    \E c1 \in 1..(MaxCapacity + 1), c2 \in 1..(MaxCapacity + 1),
       slot \in Slots, play \in Plays,
       p1 \in TrioRows, p2 \in TrioRows, p3 \in TrioRows :
      InitWith(
        Input([maxOrders |-> 2, enableVacancy |-> cf[1], seed |-> AnySeed],
              <<Theater(s1, "morning", "playX", c1), Theater(s2, slot, play, c2)>>,
              <<Order(a1, p1), Order(b1, p2), Order(a2, p3)>>,
              cf[2]),
        CHOOSE c \in Clock : TRUE)

\* Ids in any order, repeated or not, over a fixed lottery: every applicant
\* lists the theaters in file order
FilesInit ==
  \E tid \in [1..2 -> {s1, t1}], pid \in [1..2 -> {a1, b1}],
     vac \in {{a1}, {b1}, {b2}} :
    InitWith(
      Input([maxOrders |-> 2, enableVacancy |-> TRUE, seed |-> AnySeed],
            <<Theater(tid[1], "morning", "playX", 1),
              Theater(tid[2], "afternoon", "playY", 1)>>,
            <<Order(pid[1], tid), Order(pid[2], tid)>>,
            [exists |-> TRUE, ids |-> vac]),
      CHOOSE c \in Clock : TRUE)

\* Two applicants with three preference columns, one of them empty
LateRows ==
  {<<s1, s2, Null>>, <<s1, Null, s2>>, <<Null, s1, s2>>, <<s2, s1, Null>>,
   <<s2, Null, s1>>}

LateInit ==
  \E cf \in Configs :
    \E c1 \in 1..MaxCapacity, c2 \in 1..MaxCapacity,
       slot \in Slots, play \in Plays, p1 \in LateRows, p2 \in LateRows :
      InitWith(
        Input([maxOrders |-> 3, enableVacancy |-> cf[1], seed |-> AnySeed],
              <<Theater(s1, "morning", "playX", c1), Theater(s2, slot, play, c2)>>,
              <<Order(a1, p1), Order(a2, p2)>>,
              cf[2]),
        CHOOSE c \in Clock : TRUE)

Init == PairInit \/ TrioInit \/ FilesInit \/ LateInit

\* Three applicants who all list the same theaters, with a followed seed
InitSeeded ==
  \E ev \in BOOLEAN, sd \in {NoSeed, SeedOf(0), SeedOf(1), SeedOf(2)},
     c1 \in 1..MaxCapacity, p \in {<<s1, s2>>, <<s1>>}, c \in Clock :
    InitWith(
      Input([maxOrders |-> 2, enableVacancy |-> ev, seed |-> sd],
            <<Theater(s1, "morning", "playX", c1),
              Theater(s2, "afternoon", "playY", 1)>>,
            <<Order(a1, p), Order(a2, p), Order(b1, p)>>,
            [exists |-> TRUE, ids |-> {a1, a2, b1}]),
      c)

\* The program is run again on the same files
Rerun ==
  /\ pc = "done"
  /\ runNo = 1
  /\ runNo' = 2
  /\ firstRun' = [wins |-> wins, holders |-> holders, set |-> TRUE]
  /\ now' \in Clock
  /\ pc' = "main"
  /\ random' = NoRandom
  /\ persons' = <<>>
  /\ theaters' = <<>>
  /\ wins' = <<>>
  /\ holders' = <<>>
  /\ rank' = 0
  /\ groups' = <<>>
  /\ counts' = <<>>
  /\ tIdx' = 0
  /\ cIdx' = 0
  /\ seats' = 0
  /\ candidates' = <<>>
  /\ output' = NoOutput
  /\ lastStep' = NoStep
  /\ steps' = <<>>
  /\ afterInitial' = NoResult
  /\ draws' = 0
  /\ UNCHANGED inputs

Next ==
  \/ LoadTheaters
  \/ LoadOrders
  \/ RoundBegin
  \/ TheaterBegin
  \/ BucketStep
  \/ VacancyBegin
  \/ VacancyTheaterBegin
  \/ VacancyBucketStep
  \/ WriteResults

NextSeeded == Next \/ Rerun

Spec == Init /\ [][Next]_vars

SpecSeeded == InitSeeded /\ [][NextSeeded]_vars

\* main() is straight-line synchronous code: a run that can take a step
\* takes it
InitFair == LateInit \/ FilesInit

SpecFair == InitFair /\ [][Next]_vars /\ WF_vars(Next)


-----------------------------------------------------------------------------
(* Properties. *)

FreeSeats(t) == theaters[t].capacity - Cardinality(holders[t])

\* C1 (capacity invariant): in every state of a run, before, during and
\* after both lotteries, no theater has more holders than its capacity.
CapacityInvariant ==
  \A t \in DOMAIN theaters : Cardinality(holders[t]) <= theaters[t].capacity

\* A selection step had more candidates than free seats and filled the
\* theater exactly.
CapacityWitness ==
  /\ lastStep.engine # "none"
  /\ Len(lastStep.eligible) > lastStep.seatsBefore
  /\ Cardinality(holders[lastStep.theater]) = theaters[lastStep.theater].capacity

\* C2 (conflict invariant): in every state, no applicant holds two distinct
\* theaters with the same time slot or the same play.
ConflictInvariant ==
  \A i \in DOMAIN wins : \A x, y \in wins[i] :
    x # y => /\ TheaterMapGet(x).timeSlot # TheaterMapGet(y).timeSlot
             /\ TheaterMapGet(x).play # TheaterMapGet(y).play

\* The run is over; an applicant who listed both theaters, which share the
\* time slot only, holds the first alone although the second has a free seat.
ConflictWitness ==
  /\ pc = "done"
  /\ Len(theaters) = 2
  /\ theaters[1].timeSlot = theaters[2].timeSlot
  /\ theaters[1].play # theaters[2].play
  /\ FreeSeats(2) > 0
  /\ \E i \in DOMAIN persons :
       /\ persons[i].prefs[1] = theaters[1].id
       /\ persons[i].prefs[2] = theaters[2].id
       /\ wins[i] = {theaters[1].id}

\* C3 (bidirectional consistency): in every state between selection steps,
\* an applicant holds a theater exactly when the theater lists the applicant.
BidirectionalConsistency ==
  \A i \in DOMAIN persons : \A t \in DOMAIN theaters :
    (theaters[t].id \in wins[i]) <=> (persons[i].id \in holders[t])

\* Both lotteries have registered winners.
BidirectionalWitness ==
  /\ lastStep.engine = "vacancy"
  /\ \E i \in DOMAIN persons : Cardinality(wins[i]) = 2


\* C4 (determinism): two runs on the same files whose settings.json gives
\* the same seed end with the same wins of every applicant and the same
\* holders of every theater.
Determinism ==
  (runNo = 2 /\ pc = "done" /\ settings.seed.given)
    => (wins = firstRun.wins /\ holders = firstRun.holders)

\* The same, for the seeds that `seed || defaultSeed` keeps.
DeterminismNonZeroSeed ==
  (runNo = 2 /\ pc = "done" /\ settings.seed.given /\ settings.seed.value # 0)
    => (wins = firstRun.wins /\ holders = firstRun.holders)


\* C5 (backfill containment): every assignment added after the initial
\* lottery returned belongs to an applicant listed in
\* vacancy_candidates.txt; the wins of everybody else are unchanged.
BackfillContainment ==
  afterInitial.set =>
    /\ \A i \in DOMAIN persons :
         persons[i].id \notin VacancyIds => wins[i] = afterInitial.wins[i]
    /\ \A t \in DOMAIN theaters :
         (holders[t] \ afterInitial.holders[t]) \subseteq VacancyIds

\* The vacancy lottery gave a seat of a theater that still has one free,
\* while an applicant who is not listed and fits the theater stays without.
BackfillContainmentWitness ==
  /\ lastStep.engine = "vacancy"
  /\ FreeSeats(lastStep.theater) > 0
  /\ \E i \in DOMAIN persons :
       /\ persons[i].id \notin VacancyIds
       /\ ~hasConflict(wins[i], theaters[lastStep.theater])

\* C6 (backfill is a no-op when disabled or without candidates): with
\* enableVacancy false, or with an empty candidate list, wins and holders
\* stay what they were when the initial lottery returned.
BackfillNoOp ==
  (afterInitial.set /\ (~settings.enableVacancy \/ VacancyIds = {}))
    => (wins = afterInitial.wins /\ holders = afterInitial.holders)

\* The run ended with the vacancy lottery disabled, a free seat left and a
\* listed applicant who fits it.
BackfillNoOpWitness ==
  /\ pc = "done"
  /\ ~settings.enableVacancy
  /\ \E t \in DOMAIN theaters : \E i \in DOMAIN persons :
       /\ FreeSeats(t) > 0
       /\ persons[i].id \in VacancyIds
       /\ ~hasConflict(wins[i], theaters[t])

\* C7 (under-subscription completeness): a selection step of either lottery
\* with no more eligible candidates than free seats registers every one of
\* them with the theater.
UnderSubscriptionCompleteness ==
  (lastStep.engine # "none" /\ Len(lastStep.eligible) <= lastStep.seatsBefore)
    => /\ lastStep.winners = lastStep.eligible
       /\ \A k \in DOMAIN lastStep.eligible :
            /\ persons[lastStep.eligible[k]].id \in holders[lastStep.theater]
            /\ theaters[lastStep.theater].id \in wins[lastStep.eligible[k]]

\* A step of the initial lottery had two candidates for exactly two seats.
UnderSubscriptionWitness ==
  /\ lastStep.engine = "initial"
  /\ Len(lastStep.eligible) = 2
  /\ lastStep.seatsBefore = 2

\* Scenario A: two theaters of one seat in different slots with different
\* plays, two applicants who both list the first, then the second theater
ScenarioAInput ==
  /\ settings.maxOrders = 2
  /\ Len(theatersData) = 2
  /\ theatersData[1].id # theatersData[2].id
  /\ theatersData[1].timeSlot = "morning" /\ theatersData[1].play = "playX"
  /\ theatersData[2].timeSlot = "afternoon" /\ theatersData[2].play = "playY"
  /\ theatersData[1].capacity = 1 /\ theatersData[2].capacity = 1
  /\ Len(ordersData) = 2
  /\ ordersData[1].id # ordersData[2].id
  /\ \A k \in 1..2 :
       ordersData[k].prefs = <<theatersData[1].id, theatersData[2].id>>

\* C8 (scenario A): whatever the draw, the initial lottery ends with one
\* holder in each theater and one theater for each applicant, not the same.
ScenarioA ==
  (ScenarioAInput /\ afterInitial.set)
    => /\ \A t \in 1..2 : Cardinality(afterInitial.holders[t]) = 1
       /\ \A i \in 1..2 : Cardinality(afterInitial.wins[i]) = 1
       /\ afterInitial.wins[1] # afterInitial.wins[2]

\* Scenario A ended with the second applicant in the first theater.
ScenarioAWitness ==
  /\ ScenarioAInput
  /\ afterInitial.set
  /\ afterInitial.wins[2] = {theatersData[1].id}

HasDuplicateId(data) ==
  \E i, j \in DOMAIN data : i # j /\ data[i].id = data[j].id

\* C9 (duplicate ids are fatal): with a repeated applicant id or a repeated
\* theater id the run never gets past loading: no selection step runs,
\* nothing is assigned and nothing is written.
DuplicateIdsAreFatal ==
  (HasDuplicateId(theatersData) \/ HasDuplicateId(ordersData))
    => /\ pc \in {"main", "orders", "aborted"}
       /\ wins = <<>> /\ holders = <<>>
       /\ lastStep = NoStep
       /\ ~output.written

\* The run stopped on a repeated applicant id, the theater ids being fine.
DuplicateIdsWitness ==
  /\ pc = "aborted"
  /\ HasDuplicateId(ordersData)
  /\ ~HasDuplicateId(theatersData)

\* C10 (output row order is input order): individual.tsv lists the
\* applicants in the order of orders.tsv and class.tsv the theaters in the
\* order of theaters.tsv, the ids of each row ascending.
OutputKeepsInputOrder ==
  output.written =>
    /\ [k \in DOMAIN output.individual |-> output.individual[k].id]
         = [k \in DOMAIN persons |-> persons[k].id]
    /\ [k \in DOMAIN output.class |-> output.class[k].id]
         = [k \in DOMAIN theaters |-> theaters[k].id]
    /\ \A k \in DOMAIN persons : output.individual[k].ids = SortedIds(wins[k])
    /\ \A k \in DOMAIN theaters : output.class[k].ids = SortedIds(holders[k])

\* C11 (seed resolution): once main() has made the generator and before it
\* is first called, its seed word is the integer settings.json gives, and it
\* is the value of Date.now() only when settings.json gives no seed.
SeedResolution ==
  (pc # "main" /\ draws = 0)
    => /\ settings.seed.given => random.w = Word(settings.seed.value)
       /\ ~settings.seed.given => random.w = now

\* The same, for the seeds that `seed || defaultSeed` keeps.
SeedResolutionNonZeroSeed ==
  (pc # "main" /\ draws = 0 /\ settings.seed.value # 0)
    => /\ settings.seed.given => random.w = Word(settings.seed.value)
       /\ ~settings.seed.given => random.w = now

\* Two selection steps of the same pass: the same lottery, round and theater
SamePass(e, f) ==
  e.engine = f.engine /\ e.rank = f.rank /\ e.theater = f.theater

\* The selection steps made so far in the pass that is under way
CurrentPass ==
  {k \in DOMAIN steps :
     /\ steps[k].theater = tIdx
     /\ \/ pc = "bucket" /\ steps[k].engine = "initial" /\ steps[k].rank = rank
        \/ pc = "vbucket" /\ steps[k].engine = "vacancy"}

\* C12 (fewest wins first within a pass): in the pass of one theater, in a
\* round of the initial lottery or in the vacancy lottery, a bucket is
\* granted seats only if every eligible candidate of every bucket with a
\* smaller count got a seat of the theater in that pass: of two steps of a
\* pass the one with the smaller count took all its candidates, and while
\* the pass is under way no bucket below a served one still holds an
\* eligible candidate.
FewestWinsFirst ==
  /\ \A j, k \in DOMAIN steps :
       (SamePass(steps[j], steps[k]) /\ steps[j].count < steps[k].count
          /\ steps[k].winners # <<>>)
         => Range(steps[j].winners) = Range(steps[j].eligible)
  /\ \A k \in CurrentPass : \A c \in DOMAIN groups :
       (c < steps[k].count /\ steps[k].winners # <<>>)
         => \A i \in Range(groups[c]) :
              IF pc = "bucket"
              THEN ~(/\ persons[i].prefs[rank + 1] = theaters[tIdx].id
                     /\ theaters[tIdx].id \notin wins[i]
                     /\ ~hasConflict(wins[i], theaters[tIdx]))
              ELSE hasConflict(wins[i], theaters[tIdx])

\* A pass of the initial lottery served the bucket of the applicants without
\* a win and then, seats remaining, the bucket of those with one.
FewestWinsFirstWitness ==
  \E j, k \in DOMAIN steps :
    /\ SamePass(steps[j], steps[k])
    /\ steps[j].engine = "initial"
    /\ steps[j].count = 0 /\ steps[k].count = 1
    /\ steps[k].winners # <<>>

\* The number of theaters person i held just before the selection step k
CountBefore(i, k) ==
  Cardinality({j \in 1..(k - 1) : i \in Range(steps[j].winners)})

\* The ranks (1-based) at which person i lists the theater t
RanksListing(i, t) ==
  {r \in DOMAIN persons[i].prefs : persons[i].prefs[r] = theaters[t].id}

\* When the initial lottery ended, person i was without the theater t and
\* without any theater sharing its time slot or play, and t was full
LeftOutForLackOfSeats(i, t) ==
  /\ theaters[t].id \notin afterInitial.wins[i]
  /\ \A tid \in afterInitial.wins[i] :
       /\ TheaterMapGet(tid).timeSlot # theaters[t].timeSlot
       /\ TheaterMapGet(tid).play # theaters[t].play
  /\ Cardinality(afterInitial.holders[t]) >= theaters[t].capacity

\* C13 as stated (priority by win count, then rank): the initial lottery
\* never grants a seat of a theater to an applicant with more wins while an
\* applicant with fewer wins at that moment, who lists the theater at any
\* rank and has no conflict with it, ends the initial lottery without it for
\* lack of seats.
LexicalFairnessAnyRank ==
  afterInitial.set =>
    \A k \in DOMAIN steps : \A x \in Range(steps[k].winners) :
      \A y \in DOMAIN persons :
        (/\ steps[k].engine = "initial"
         /\ CountBefore(y, k) < CountBefore(x, k)
         /\ RanksListing(y, steps[k].theater) # {})
          => ~LeftOutForLackOfSeats(y, steps[k].theater)

\* C13 (priority by rank, then win count): the same, for an applicant with
\* fewer wins who lists the theater at the rank of the round in which the
\* seat is granted, or at an earlier one.
LexicalFairnessUpToRank ==
  afterInitial.set =>
    \A k \in DOMAIN steps : \A x \in Range(steps[k].winners) :
      \A y \in DOMAIN persons :
        (/\ steps[k].engine = "initial"
         /\ CountBefore(y, k) < CountBefore(x, k)
         /\ \E r \in RanksListing(y, steps[k].theater) : r <= steps[k].rank + 1)
          => ~LeftOutForLackOfSeats(y, steps[k].theater)

\* In the second round a seat went to an applicant with one win while an
\* applicant without any, who lists the same theater at the same rank, had
\* been served first and holds it.
LexicalFairnessWitness ==
  /\ afterInitial.set
  /\ \E j, k \in DOMAIN steps : \E x \in Range(steps[k].winners) :
       \E y \in Range(steps[j].winners) :
         /\ SamePass(steps[j], steps[k])
         /\ steps[k].engine = "initial" /\ steps[k].rank = 1
         /\ CountBefore(y, j) < CountBefore(x, k)
         /\ steps[k].rank + 1 \in RanksListing(y, steps[k].theater)
         /\ theaters[steps[k].theater].id \in afterInitial.wins[y]

\* Every order in which the theaters can be taken
TheaterOrders ==
  {o \in [1..Len(theaters) -> 1..Len(theaters)] :
     \A j, k \in 1..Len(theaters) : j # k => o[j] # o[k]}

\* The assigned sets at the start of the round r of the initial lottery,
\* rebuilt from the selection steps of the earlier rounds
StartOfRound(r) ==
  LET before == {k \in DOMAIN steps :
                   steps[k].engine = "initial" /\ steps[k].rank < r}
  IN  [wins |-> [i \in DOMAIN persons |->
                   {theaters[steps[k].theater].id :
                      k \in {j \in before : i \in Range(steps[j].winners)}}],
       holders |-> [t \in DOMAIN theaters |->
                      UNION {{persons[i].id : i \in Range(steps[k].winners)} :
                               k \in {j \in before : steps[j].theater = t}}]]

\* C14 (the round does not depend on the order of the theaters): the
\* candidates of every selection step of a round are those the filter gives
\* on the assigned sets the round started from; the assigned sets a round
\* can end with, over every draw, are the same for every order in which the
\* theaters are taken; and the round as run ends with one of them.
RoundOrderIndependence ==
  /\ \A k \in DOMAIN steps :
       steps[k].engine = "initial" =>
         LET st == StartOfRound(steps[k].rank)
             g == groupByAssignedCount(AllPersons, st.wins)
         IN  steps[k].eligible =
               SelectSeq(g[steps[k].count],
                         LAMBDA i : EligibleAt(st.wins, steps[k].rank, i,
                                               steps[k].theater))
  /\ (pc = "theater" /\ tIdx = 1) =>
       /\ StartOfRound(rank) = [wins |-> wins, holders |-> holders]
       /\ \A o \in TheaterOrders :
            RoundOutcomes(StartOfRound(rank), o, rank)
              = RoundOutcomes(StartOfRound(rank), FileOrder, rank)
  /\ (pc = "round" /\ rank > 0) =>
       [wins |-> wins, holders |-> holders]
         \in RoundOutcomes(StartOfRound(rank - 1), FileOrder, rank - 1)

\* The second round starts with candidates for both theaters, and a draw
\* decides how it ends.
RoundOrderWitness ==
  /\ pc = "theater" /\ tIdx = 1 /\ rank = 1
  /\ Len(theaters) = 2
  /\ \A t \in DOMAIN theaters : \E i \in DOMAIN persons : InitialEligible(i, t)
  /\ Cardinality(RoundOutcomes([wins |-> wins, holders |-> holders],
                               FileOrder, rank)) > 1

\* C15 (the vacancy lottery regroups for each theater): when the vacancy
\* lottery takes a theater, every listed applicant is in the bucket of the
\* number of theaters held at that moment, seats won earlier in the vacancy
\* lottery included, so every candidate of a selection step of the vacancy
\* lottery is counted with all the wins made before that step.
BackfillRegroupsPerTheater ==
  /\ (pc = "vbucket" /\ cIdx = 1) =>
       /\ \A k \in DOMAIN candidates :
            /\ Cardinality(wins[candidates[k]]) \in DOMAIN groups
            /\ candidates[k] \in Range(groups[Cardinality(wins[candidates[k]])])
       /\ \A c \in DOMAIN groups : \A i \in Range(groups[c]) :
            Cardinality(wins[i]) = c
  /\ \A k \in DOMAIN steps :
       steps[k].engine = "vacancy" =>
         \A i \in Range(steps[k].eligible) : steps[k].count = CountBefore(i, k)

\* For the second theater an applicant who won the first in the vacancy
\* lottery stands in the bucket of one win, behind a listed applicant who
\* still has none and takes the seat.
BackfillRegroupsWitness ==
  /\ pc = "vbucket" /\ tIdx = 2
  /\ lastStep.engine = "vacancy" /\ lastStep.theater = 2 /\ lastStep.count = 0
  /\ \E i \in Range(candidates) :
       /\ afterInitial.wins[i] = {}
       /\ wins[i] = {theaters[1].id}
       /\ i \in Range(groups[1])
       /\ ~hasConflict(wins[i], theaters[2])

\* C16 (winners are never holders already): in both lotteries no candidate
\* of a selection step holds the theater already, the vacancy lottery
\* included, where only hasConflict filters; so during a pass the local
\* `seats` is the capacity minus the number of holders.
WinnersAreNewHolders ==
  /\ \A j, k \in DOMAIN steps :
       (j < k /\ steps[j].theater = steps[k].theater)
         => Range(steps[j].winners) \cap Range(steps[k].eligible) = {}
  /\ pc \in {"bucket", "vbucket"} =>
       seats = theaters[tIdx].capacity - Cardinality(holders[tIdx])

\* The vacancy lottery gave seats of a theater that a listed applicant held
\* since the initial lottery, and seats are still free.
WinnersAreNewHoldersWitness ==
  /\ pc = "vbucket" /\ seats > 0
  /\ lastStep.engine = "vacancy" /\ lastStep.theater = tIdx
  /\ \E i \in Range(candidates) : theaters[tIdx].id \in afterInitial.wins[i]

\* Every theater has as many holders as seats, or more
EveryTheaterFull ==
  \A t \in DOMAIN theaters : Cardinality(holders[t]) >= theaters[t].capacity

\* C17 (termination and early stop of the initial lottery): the initial
\* lottery runs at most maxOrders rounds and returns, unless loading stopped
\* the program; and when a round would start with every theater full, the
\* lottery returns at once, with no seat granted and no draw made.
InitialLotteryStops ==
  /\ [](/\ rank <= settings.maxOrders
        /\ \A k \in DOMAIN steps :
             steps[k].engine = "initial" => steps[k].rank < settings.maxOrders)
  /\ [][(pc = "round" /\ EveryTheaterFull)
          => /\ pc' = "vacancy" /\ afterInitial'.set
             /\ wins' = wins /\ holders' = holders
             /\ draws' = draws /\ steps' = steps /\ rank' = rank]_vars
  /\ <>(afterInitial.set \/ pc = "aborted")

\* The initial lottery returned after the first of three rounds, every
\* theater being full, while an applicant had a second preference that was
\* never looked at.
InitialLotteryStopsWitness ==
  /\ afterInitial.set
  /\ rank = 1 /\ settings.maxOrders = 3
  /\ steps # <<>>
  /\ \E i \in DOMAIN persons :
       /\ persons[i].prefs[2] # Null
       /\ persons[i].prefs[2] \notin afterInitial.wins[i]

\* C18 (the vacancy lottery saturates): when the vacancy lottery has run
\* with a non-empty list, every theater that still has a free seat is held
\* by every listed applicant, or clashes in time slot or play with a theater
\* the applicant holds, whatever the applicant's preferences are.
BackfillSaturation ==
  (pc \in {"write", "done"} /\ settings.enableVacancy /\ VacancyIds # {})
    => \A t \in DOMAIN theaters :
         Cardinality(holders[t]) < theaters[t].capacity
           => \A i \in DOMAIN persons :
                persons[i].id \in VacancyIds
                  => \/ theaters[t].id \in wins[i]
                     \/ \E tid \in wins[i] :
                          \/ TheaterMapGet(tid).timeSlot = theaters[t].timeSlot
                          \/ TheaterMapGet(tid).play = theaters[t].play

\* The vacancy lottery gave a listed applicant a theater the applicant never
\* listed, and it still has a free seat at the end of the run.
BackfillSaturationWitness ==
  /\ pc = "done" /\ settings.enableVacancy
  /\ \E t \in DOMAIN theaters : \E i \in DOMAIN persons :
       /\ Cardinality(holders[t]) < theaters[t].capacity
       /\ persons[i].id \in VacancyIds
       /\ theaters[t].id \notin Range(persons[i].prefs)
       /\ theaters[t].id \in wins[i]
       /\ theaters[t].id \notin afterInitial.wins[i]

\* C19 (at most one win per round): no applicant wins in two selection
\* steps of one round of the initial lottery, so an applicant holds at most
\* as many theaters as rounds were begun; when the initial lottery ends,
\* every applicant holds at most maxOrders theaters, each of them one of the
\* applicant's preferences.
OneWinPerRound ==
  /\ \A i \in DOMAIN persons : \A j, k \in DOMAIN steps :
       (/\ steps[j].engine = "initial" /\ steps[k].engine = "initial"
        /\ steps[j].rank = steps[k].rank
        /\ i \in Range(steps[j].winners) /\ i \in Range(steps[k].winners))
         => j = k
  /\ pc \in {"theater", "bucket"} =>
       \A i \in DOMAIN persons : Cardinality(wins[i]) <= rank + 1
  /\ afterInitial.set =>
       \A i \in DOMAIN persons :
         /\ Cardinality(afterInitial.wins[i]) <= settings.maxOrders
         /\ afterInitial.wins[i] \subseteq Range(persons[i].prefs) \ {Null}

\* The initial lottery ended with an applicant holding a theater for each of
\* two ranks and another, fitting applicant without a theater both wanted.
OneWinPerRoundWitness ==
  /\ afterInitial.set /\ settings.maxOrders = 2
  /\ \E i, j \in DOMAIN persons :
       /\ Cardinality(afterInitial.wins[i]) = 2
       /\ afterInitial.wins[j] = {}
       /\ Range(persons[j].prefs) \cap afterInitial.wins[i] # {}

\* C20 (no wasted preferred seat): when the initial lottery ends, for every
\* applicant and every rank that names a theater of theaters.tsv, the
\* applicant holds the theater, or the theater is full, or the applicant
\* holds another theater with its time slot or its play.
NoWastedPreferredSeat ==
  afterInitial.set =>
    \A i \in DOMAIN persons : \A r \in 1..settings.maxOrders :
      \A t \in DOMAIN theaters :
        persons[i].prefs[r] = theaters[t].id
          => \/ theaters[t].id \in afterInitial.wins[i]
             \/ Cardinality(afterInitial.holders[t]) >= theaters[t].capacity
             \/ \E tid \in afterInitial.wins[i] \ {theaters[t].id} :
                  \/ TheaterMapGet(tid).timeSlot = theaters[t].timeSlot
                  \/ TheaterMapGet(tid).play = theaters[t].play

\* The initial lottery ended with an applicant who lost the draw for the
\* first preference and took, holding nothing then, a seat of the second,
\* which still has seats free, next to an applicant holding both.
NoWastedPreferredSeatWitness ==
  /\ afterInitial.set
  /\ \E i, j \in DOMAIN persons : \E t \in DOMAIN theaters :
       /\ persons[i].prefs[2] = theaters[t].id
       /\ persons[i].prefs[1] \notin afterInitial.wins[i]
       /\ persons[i].prefs[1] # Null
       /\ afterInitial.wins[i] = {theaters[t].id}
       /\ Cardinality(afterInitial.wins[j]) = 2
       /\ Cardinality(afterInitial.holders[t]) < theaters[t].capacity

=============================================================================
